---------------------------- MODULE Spec2Model ----------------------------
(***************************************************************************)
(* State-machine model of gst/rtpmanager/gstrtpjitterbuffer.c: the element *)
(* private state, the ingress path (chain, sink events, caps), the egress  *)
(* task (gst_rtp_jitter_buffer_loop), the control surface (state changes,  *)
(* properties, latency query) and the clock the task synchronises on.      *)
(*                                                                         *)
(* The JBUF mutex is modelled explicitly (variable jbuf_lock): every step  *)
(* that the code performs under JBUF_LOCK requires the mutex, the egress   *)
(* task keeps it across the steps of one critical section, and the writes  *)
(* the code performs without the mutex are steps that need no mutex.       *)
(*                                                                         *)
(* Units: clock times are nanoseconds, RTP timestamps are clock-rate ticks.*)
(* Every RTP timestamp of the model is far below 2^31, so that 32-bit and  *)
(* 64-bit unsigned arithmetic only wraps where a subtraction goes negative;*)
(* those places are modelled by the value the unsigned code yields.        *)
(***************************************************************************)
EXTENDS Integers, Sequences, FiniteSets, TLC

(* ------------------------------ bounds -------------------------------- *)
\* number of steps of the environment in one behaviour: buffers handed to the
\* chain function, events, property writes, caps, queries and clock ticks
MaxEnv == 4

(* ------------------------- program constants -------------------------- *)
DEFAULT_LATENCY_MS == 200
DEFAULT_DROP_ON_LATENCY == FALSE
GST_MSECOND == 1000000
GST_SECOND == 1000000000
SEQ_HALF == 32768
SEQ_MOD == 65536

\* one clock tick of the model: the time between two packets of the sender
TickNs == 100 * GST_MSECOND

\* sequence numbers the sender uses: they straddle the 16-bit wrap
Seqs == {65534, 65535, 0, 1}
\* the sender's RTP timestamp of a packet: 100 ticks of a 1000 Hz clock apart
TsOf(s) == 100 * ((s + 2) % SEQ_MOD)

Latencies == {0, DEFAULT_LATENCY_MS}
TsOffsets == {0, 500000, TickNs, 0 - TickNs}
PeerLatencies == {0, TickNs}
PeerMaxLatencies == {0 - 1, TickNs}
SegmentStarts == {0, TickNs}
PushResults == {"OK", "ERROR"}

\* a caps structure: the fields are present (a number) or absent ("none")
Absent == 0 - 2
CapsSet ==
  { [clock_rate |-> 1000, clock_base |-> Absent, seqnum_base |-> Absent],
    [clock_rate |-> 1000, clock_base |-> 100, seqnum_base |-> 65535],
    [clock_rate |-> Absent, clock_base |-> Absent, seqnum_base |-> Absent] }

\* answers of a request-pt-map handler: any caps, also caps whose clock-rate
\* the sink pad template would not admit
ResolverCaps ==
  CapsSet \cup
    { [clock_rate |-> 0, clock_base |-> Absent, seqnum_base |-> Absent],
      [clock_rate |-> 0 - 5, clock_base |-> Absent, seqnum_base |-> Absent] }

\* caps of a slow payload clock and a short latency: latency_ms * clock_rate
\* is below 1000
SlowCaps == {[clock_rate |-> 500, clock_base |-> Absent, seqnum_base |-> Absent]}
ShortLatencies == {1}

(* ------------------------------ helpers ------------------------------- *)
Abs(x) == IF x < 0 THEN 0 - x ELSE x

\* a guint32 or guint64 field passed as a guint16 argument
U16(x) == x % SEQ_MOD

RECURSIVE Gcd(_, _)
Gcd(a, b) == IF b = 0 THEN a ELSE Gcd(b, a % b)

\* gst_util_uint64_scale_int (val, num, denom): val * num / denom rounded
\* down; G_MAXUINT64 (-1 here, GST_CLOCK_TIME_NONE) when denom is not positive
\* or num is negative, or when val is a wrapped (negative) unsigned value,
\* whose product overflows.
gst_util_uint64_scale_int(val, num, denom) ==
  IF denom <= 0 \/ num < 0 \/ val < 0 THEN -1
  ELSE LET g == Gcd(num, denom) IN (val * (num \div g)) \div (denom \div g)

\* Performs comparison 'b - a' with check for overflows.
priv_compare_rtp_seq_lt(a, b) ==
  IF Abs(b - a) > SEQ_HALF THEN a - b ELSE b - a

\* the signed 16-bit distance from a to b (the claims' seq_diff)
SeqDiff(a, b) ==
  LET d == (b - a) % SEQ_MOD IN IF d >= SEQ_HALF THEN d - SEQ_MOD ELSE d

(* ------------------- the packet store (RTPJitterBuffer) --------------- *)
\* The store is a sequence of packets, smallest seqnum (wrap-aware) first.
SeqsIn(q) == {q[i].seq : i \in 1..Len(q)}

rtp_jitter_buffer_num_packets(q) == Len(q)

\* TRUE when the packet can be inserted: no packet with its seqnum is resident
rtp_jitter_buffer_insert_ok(q, p) == p.seq \notin SeqsIn(q)

\* the store after inserting p in seqnum order
rtp_jitter_buffer_insert(q, p) ==
  LET k == Cardinality({i \in 1..Len(q) : SeqDiff(q[i].seq, p.seq) > 0})
  IN SubSeq(q, 1, k) \o <<p>> \o SubSeq(q, k + 1, Len(q))

\* the store after popping its head; popping an empty store yields nothing
rtp_jitter_buffer_pop(q) == IF Len(q) = 0 THEN q ELSE Tail(q)

\* RTP-timestamp distance between the tail and the head of the store
rtp_jitter_buffer_get_ts_diff(q) ==
  IF Len(q) = 0 THEN 0 ELSE q[Len(q)].ts - q[1].ts

rtp_jitter_buffer_flush(q) == <<>>

(* ------------------------------ state --------------------------------- *)
VARIABLES
  \* GstRtpJitterBufferPrivate
  jbuf, latency_ms, drop_on_latency, ts_offset, prev_ts_offset,
  last_popped_seqnum, next_seqnum, eos, clock_rate, clock_base, exttimestamp,
  srcresult, blocked, segment, clock_id, waiting_seqnum, peer_latency,
  num_late, num_duplicates,
  \* the JBUF mutex: "free" or "loop" (held by the egress task)
  jbuf_lock,
  \* the egress task: GstTask state, position in the loop function, locals
  task, pc, outbuf, ret, result,
  \* the streaming thread inside gst_rtp_jitter_buffer_chain
  chain_pc, chain_buf, chain_ret, unscheduled_by_chain,
  \* the element and its environment
  state, now, base_time, have_clock,
  \* bookkeeping: steps of the environment so far, seqnums pushed downstream
  \* since the last flush-stop
  steps, released,
  \* observations: the GstQuery last answered, whether flush_start found the
  \* task in its clock wait, the ts-offset in force at the last push downstream,
  \* the EOS events pushed downstream since the source pad was activated,
  \* whether flush_start was called since the last flush_stop, whether
  \* flush_stop ran while the gst_pad_push now in flight had the mutex released
  query, flushed_slot, released_ts_offset, eos_events, flush_pending,
  push_flushed

privvars == <<jbuf, latency_ms, drop_on_latency, ts_offset, prev_ts_offset,
  last_popped_seqnum, next_seqnum, eos, clock_rate, clock_base, exttimestamp,
  srcresult, blocked, segment, clock_id, waiting_seqnum, peer_latency,
  num_late, num_duplicates>>
taskvars == <<jbuf_lock, task, pc, outbuf, ret, result>>
chainvars == <<chain_pc, chain_buf, chain_ret, unscheduled_by_chain>>
envvars == <<state, now, base_time, have_clock>>
bookvars == <<steps, released>>
obsvars == <<query, flushed_slot, released_ts_offset, eos_events,
  flush_pending, push_flushed>>
vars == <<privvars, taskvars, chainvars, envvars, bookvars, obsvars>>

\* gst_rtp_jitter_buffer_init on the zero-filled private structure, and the
\* properties given at construction
Init ==
  /\ jbuf = <<>>
  /\ latency_ms \in Latencies
  /\ drop_on_latency = DEFAULT_DROP_ON_LATENCY
  /\ ts_offset = 0
  /\ prev_ts_offset = 0
  /\ last_popped_seqnum = 0
  /\ next_seqnum = 0
  /\ eos = FALSE
  /\ clock_rate = 0
  /\ clock_base = 0
  /\ exttimestamp = 0
  /\ srcresult = "OK"
  /\ blocked = FALSE
  /\ segment = 0
  /\ clock_id = <<>>
  /\ waiting_seqnum = -1
  /\ peer_latency = 0
  /\ num_late = 0
  /\ num_duplicates = 0
  /\ jbuf_lock = "free"
  /\ task = "STOPPED"
  /\ pc = "idle"
  /\ outbuf = <<>>
  /\ ret = "NONE"
  /\ result = "OK"
  /\ chain_pc = "idle"
  /\ chain_buf = <<>>
  /\ chain_ret = "NONE"
  /\ unscheduled_by_chain = FALSE
  /\ state = "READY"
  /\ now = 0
  /\ base_time = 0
  /\ have_clock = FALSE
  /\ steps = 0
  /\ released = {}
  /\ query = <<>>
  /\ flushed_slot = FALSE
  /\ released_ts_offset = Absent
  /\ eos_events = 0
  /\ flush_pending = FALSE
  /\ push_flushed = FALSE


(* ------------------------- caps and negotiation ----------------------- *)
\* gst_jitter_buffer_sink_parse_caps: the clock-rate is written into the
\* private structure before it is checked
ParseCaps(c) ==
  IF c.clock_rate = Absent
  THEN UNCHANGED <<clock_rate, clock_base, next_seqnum>>
  ELSE IF c.clock_rate <= 0
  THEN clock_rate' = c.clock_rate /\ UNCHANGED <<clock_base, next_seqnum>>
  ELSE /\ clock_rate' = c.clock_rate
       /\ clock_base' = (IF c.clock_base = Absent THEN -1 ELSE c.clock_base)
       /\ next_seqnum' = (IF c.seqnum_base = Absent THEN -1 ELSE c.seqnum_base)

\* caps the sink pad template admits
PadCaps == {c \in CapsSet : c.clock_rate >= 1}

\* a signal that fails to wake the task (the variant the wakeup property of
\* C27 is checked against)
SignalledLost(p) == p

\* a condition-variable signal wakes the task when it waits on the condition
Signalled(p) == IF p = "cond_wait" THEN "cond_woken" ELSE p

\* gst_clock_id_unschedule on an entry
Unscheduled(cid) ==
  IF cid = <<>> THEN cid ELSE <<[cid[1] EXCEPT !.status = "UNSCHEDULED"]>>

Active == state \in {"PAUSED", "PLAYING"}

\* gst_jitter_buffer_sink_setcaps, on the streaming thread
SetCaps(c) ==
  /\ Active /\ chain_pc = "idle" /\ steps < MaxEnv
  /\ ParseCaps(c)
  /\ steps' = steps + 1
  /\ UNCHANGED <<jbuf, latency_ms, drop_on_latency, ts_offset, prev_ts_offset,
       last_popped_seqnum, eos, exttimestamp, srcresult, blocked, segment,
       clock_id, waiting_seqnum, peer_latency, num_late, num_duplicates>>
  /\ UNCHANGED <<taskvars, chainvars, envvars, released>>
  /\ UNCHANGED obsvars

\* gst_rtp_jitter_buffer_clear_pt_map
ClearPtMap ==
  /\ Active /\ steps < MaxEnv
  /\ clock_rate' = -1
  /\ steps' = steps + 1
  /\ UNCHANGED <<jbuf, latency_ms, drop_on_latency, ts_offset, prev_ts_offset,
       last_popped_seqnum, next_seqnum, eos, clock_base, exttimestamp,
       srcresult, blocked, segment, clock_id, waiting_seqnum, peer_latency,
       num_late, num_duplicates>>
  /\ UNCHANGED <<taskvars, chainvars, envvars, released>>
  /\ UNCHANGED obsvars

(* ------------------------------ flushing ------------------------------ *)
\* a flush_start that leaves the packets in the store (the variant the
\* flushing property of C24 is checked against)
FlushStartKeepsStore ==
  /\ Active /\ jbuf_lock = "free" /\ steps < MaxEnv
  /\ srcresult' = "WRONG_STATE"
  /\ pc' = Signalled(pc)
  /\ jbuf' = jbuf
  /\ clock_id' = Unscheduled(clock_id)
  /\ steps' = steps + 1
  /\ UNCHANGED <<latency_ms, drop_on_latency, ts_offset, prev_ts_offset,
       last_popped_seqnum, next_seqnum, eos, clock_rate, clock_base,
       exttimestamp, blocked, segment, waiting_seqnum, peer_latency,
       num_late, num_duplicates>>
  /\ UNCHANGED <<jbuf_lock, task, outbuf, ret, result>>
  /\ UNCHANGED <<chainvars, envvars, released>>
  /\ flushed_slot' = (pc \in {"clock_wait", "clock_woken"})
  /\ flush_pending' = TRUE
  /\ UNCHANGED <<query, released_ts_offset, eos_events, push_flushed>>

\* gst_rtp_jitter_buffer_flush_start
FlushStart ==
  /\ Active /\ jbuf_lock = "free" /\ steps < MaxEnv
  /\ srcresult' = "WRONG_STATE"
  /\ pc' = Signalled(pc)
  /\ jbuf' = rtp_jitter_buffer_flush(jbuf)
  /\ clock_id' = Unscheduled(clock_id)
  /\ steps' = steps + 1
  /\ UNCHANGED <<latency_ms, drop_on_latency, ts_offset, prev_ts_offset,
       last_popped_seqnum, next_seqnum, eos, clock_rate, clock_base,
       exttimestamp, blocked, segment, waiting_seqnum, peer_latency,
       num_late, num_duplicates>>
  /\ UNCHANGED <<jbuf_lock, task, outbuf, ret, result>>
  /\ UNCHANGED <<chainvars, envvars, released>>
  /\ flushed_slot' = (pc \in {"clock_wait", "clock_woken"})
  /\ flush_pending' = TRUE
  /\ UNCHANGED <<query, released_ts_offset, eos_events, push_flushed>>

\* a flush_stop that leaves the EOS flag alone (the variant the EOS property
\* of C14 is checked against)
FlushStopFieldsKeepEos ==
  /\ srcresult' = "OK"
  /\ segment' = 0
  /\ last_popped_seqnum' = -1
  /\ next_seqnum' = -1
  /\ clock_rate' = -1
  /\ eos' = eos
  /\ exttimestamp' = -1

\* a flush_stop that keeps the negotiated clock-rate (the variant the reset
\* property of C25 is checked against)
FlushStopFieldsKeepRate ==
  /\ srcresult' = "OK"
  /\ segment' = 0
  /\ last_popped_seqnum' = -1
  /\ next_seqnum' = -1
  /\ clock_rate' = clock_rate
  /\ eos' = FALSE
  /\ exttimestamp' = -1

\* the assignments of gst_rtp_jitter_buffer_flush_stop
FlushStopFields ==
  /\ srcresult' = "OK"
  /\ segment' = 0
  /\ last_popped_seqnum' = -1
  /\ next_seqnum' = -1
  /\ clock_rate' = -1
  /\ eos' = FALSE
  /\ exttimestamp' = -1

\* GST_EVENT_FLUSH_STOP: gst_rtp_jitter_buffer_src_activate_push (TRUE), that
\* is flush_stop and gst_pad_start_task
FlushStop ==
  /\ Active /\ chain_pc = "idle" /\ jbuf_lock = "free" /\ steps < MaxEnv
  /\ FlushStopFields
  /\ task' = "STARTED"
  /\ released' = {}
  /\ steps' = steps + 1
  /\ UNCHANGED <<jbuf, latency_ms, drop_on_latency, ts_offset, prev_ts_offset,
       clock_base, blocked, clock_id, waiting_seqnum, peer_latency, num_late,
       num_duplicates>>
  /\ UNCHANGED <<jbuf_lock, pc, outbuf, ret, result>>
  /\ UNCHANGED <<chainvars, envvars>>
  /\ eos_events' = 0
  /\ flush_pending' = FALSE
  /\ push_flushed' = (pc \in {"pushing", "pause"})
  /\ UNCHANGED <<query, flushed_slot, released_ts_offset>>

\* GST_EVENT_EOS on the sink pad
SinkEos ==
  /\ Active /\ chain_pc = "idle" /\ jbuf_lock = "free" /\ steps < MaxEnv
  /\ IF srcresult = "OK" /\ ~eos
     THEN eos' = TRUE /\ pc' = Signalled(pc)
     ELSE UNCHANGED <<eos, pc>>
  /\ steps' = steps + 1
  /\ UNCHANGED <<jbuf, latency_ms, drop_on_latency, ts_offset, prev_ts_offset,
       last_popped_seqnum, next_seqnum, clock_rate, clock_base, exttimestamp,
       srcresult, blocked, segment, clock_id, waiting_seqnum, peer_latency,
       num_late, num_duplicates>>
  /\ UNCHANGED <<jbuf_lock, task, outbuf, ret, result>>
  /\ UNCHANGED <<chainvars, envvars, released>>
  /\ UNCHANGED obsvars

\* GST_EVENT_NEWSEGMENT in TIME format with an open stop
NewSegment(start) ==
  /\ Active /\ chain_pc = "idle" /\ steps < MaxEnv
  /\ segment' = start
  /\ steps' = steps + 1
  /\ UNCHANGED <<jbuf, latency_ms, drop_on_latency, ts_offset, prev_ts_offset,
       last_popped_seqnum, next_seqnum, eos, clock_rate, clock_base,
       exttimestamp, srcresult, blocked, clock_id, waiting_seqnum,
       peer_latency, num_late, num_duplicates>>
  /\ UNCHANGED <<taskvars, chainvars, envvars, released>>
  /\ UNCHANGED obsvars

(* --------------------------- state changes ---------------------------- *)
\* GST_STATE_CHANGE_READY_TO_PAUSED, and the activation of the source pad by
\* the parent class: flush_stop and gst_pad_start_task
ReadyToPaused ==
  /\ state = "READY" /\ jbuf_lock = "free"
  /\ FlushStopFields
  /\ clock_base' = -1
  /\ peer_latency' = 0
  /\ blocked' = TRUE
  /\ task' = "STARTED"
  /\ state' = "PAUSED"
  /\ released' = {}
  /\ UNCHANGED <<jbuf, latency_ms, drop_on_latency, ts_offset, prev_ts_offset,
       clock_id, waiting_seqnum, num_late, num_duplicates>>
  /\ UNCHANGED <<jbuf_lock, pc, outbuf, ret, result>>
  /\ UNCHANGED <<chainvars, now, base_time, have_clock, steps>>
  /\ eos_events' = 0
  /\ flush_pending' = FALSE
  /\ push_flushed' = FALSE
  /\ UNCHANGED <<query, flushed_slot, released_ts_offset>>

\* GST_STATE_CHANGE_PAUSED_TO_PLAYING; the pipeline has set the base time and
\* distributed its clock, if it has one
PausedToPlaying(c) ==
  /\ state = "PAUSED" /\ jbuf_lock = "free"
  /\ blocked' = FALSE
  /\ pc' = Signalled(pc)
  /\ base_time' = now
  /\ have_clock' = c
  /\ state' = "PLAYING"
  /\ UNCHANGED <<jbuf, latency_ms, drop_on_latency, ts_offset, prev_ts_offset,
       last_popped_seqnum, next_seqnum, eos, clock_rate, clock_base,
       exttimestamp, srcresult, segment, clock_id, waiting_seqnum,
       peer_latency, num_late, num_duplicates>>
  /\ UNCHANGED <<jbuf_lock, task, outbuf, ret, result>>
  /\ UNCHANGED <<chainvars, now, bookvars>>
  /\ UNCHANGED obsvars

\* GST_STATE_CHANGE_PLAYING_TO_PAUSED
PlayingToPaused ==
  /\ state = "PLAYING" /\ jbuf_lock = "free" /\ steps < MaxEnv
  /\ blocked' = TRUE
  /\ state' = "PAUSED"
  /\ steps' = steps + 1
  /\ UNCHANGED <<jbuf, latency_ms, drop_on_latency, ts_offset, prev_ts_offset,
       last_popped_seqnum, next_seqnum, eos, clock_rate, clock_base,
       exttimestamp, srcresult, segment, clock_id, waiting_seqnum,
       peer_latency, num_late, num_duplicates>>
  /\ UNCHANGED <<taskvars, chainvars, now, base_time, have_clock, released>>
  /\ UNCHANGED obsvars

(* ----------------------- properties and queries ----------------------- *)
\* PROP_LATENCY
SetLatency(v) ==
  /\ steps < MaxEnv
  /\ latency_ms' = v
  /\ steps' = steps + 1
  /\ UNCHANGED <<jbuf, drop_on_latency, ts_offset, prev_ts_offset,
       last_popped_seqnum, next_seqnum, eos, clock_rate, clock_base,
       exttimestamp, srcresult, blocked, segment, clock_id, waiting_seqnum,
       peer_latency, num_late, num_duplicates>>
  /\ UNCHANGED <<taskvars, chainvars, envvars, released>>
  /\ UNCHANGED obsvars

\* PROP_DROP_ON_LATENCY
SetDropOnLatency(v) ==
  /\ steps < MaxEnv
  /\ drop_on_latency' = v
  /\ steps' = steps + 1
  /\ UNCHANGED <<jbuf, latency_ms, ts_offset, prev_ts_offset,
       last_popped_seqnum, next_seqnum, eos, clock_rate, clock_base,
       exttimestamp, srcresult, blocked, segment, clock_id, waiting_seqnum,
       peer_latency, num_late, num_duplicates>>
  /\ UNCHANGED <<taskvars, chainvars, envvars, released>>
  /\ UNCHANGED obsvars

\* PROP_TS_OFFSET
SetTsOffset(v) ==
  /\ jbuf_lock = "free" /\ steps < MaxEnv
  /\ ts_offset' = v
  /\ steps' = steps + 1
  /\ UNCHANGED <<jbuf, latency_ms, drop_on_latency, prev_ts_offset,
       last_popped_seqnum, next_seqnum, eos, clock_rate, clock_base,
       exttimestamp, srcresult, blocked, segment, clock_id, waiting_seqnum,
       peer_latency, num_late, num_duplicates>>
  /\ UNCHANGED <<taskvars, chainvars, envvars, released>>
  /\ UNCHANGED obsvars

\* a GstClockTime kept as seconds and nanoseconds: the maximum of the latency
\* query exceeds the integers of the model
Wide(t) == [s |-> t \div GST_SECOND, ns |-> t % GST_SECOND]

WideAdd(a, b) ==
  [s |-> a.s + b.s + ((a.ns + b.ns) \div GST_SECOND),
   ns |-> (a.ns + b.ns) % GST_SECOND]

\* the 64-bit product t * GST_MSECOND
TimesMSecond(t) ==
  [s |-> t \div (GST_SECOND \div GST_MSECOND),
   ns |-> (t % (GST_SECOND \div GST_MSECOND)) * GST_MSECOND]

\* the maximum latency set in the query; -1 is "no upper limit"
QueryMaxLatency(max_latency, our_latency) ==
  IF max_latency /= -1
  THEN WideAdd(Wide(max_latency), TimesMSecond(our_latency))
  ELSE Wide(max_latency)

\* GST_QUERY_LATENCY answered by the upstream peer with minimum m and
\* maximum mx
QueryLatency(m, mx) ==
  /\ Active /\ jbuf_lock = "free" /\ steps < MaxEnv
  /\ peer_latency' = m
  /\ LET our_latency == latency_ms * GST_MSECOND
     IN query' = <<[peer_min |-> m, peer_max |-> mx,
                    min |-> m + our_latency,
                    max |-> QueryMaxLatency(mx, our_latency)]>>
  /\ steps' = steps + 1
  /\ UNCHANGED <<jbuf, latency_ms, drop_on_latency, ts_offset, prev_ts_offset,
       last_popped_seqnum, next_seqnum, eos, clock_rate, clock_base,
       exttimestamp, srcresult, blocked, segment, clock_id, waiting_seqnum,
       num_late, num_duplicates>>
  /\ UNCHANGED <<taskvars, chainvars, envvars, released>>
  /\ UNCHANGED <<flushed_slot, released_ts_offset, eos_events,
       flush_pending, push_flushed>>

(* ------------------------------ ingress ------------------------------- *)
\* the buffer the upstream peer hands to the chain function
Packet(s) ==
  [seq |-> s, ts |-> TsOf(s), arr |-> now, discont |-> FALSE, due |-> Absent]

\* the too-late test of chain against the last pushed seqnum
TooLate(last, seqnum) ==
  last /= -1 /\ priv_compare_rtp_seq_lt(U16(last), seqnum) < 0

\* the queue-full test of chain: latency in RTP ticks against the store span
QueueFull(lat, drop, rate, q) ==
  /\ lat /= 0 /\ drop
  /\ LET latency_ts == gst_util_uint64_scale_int(lat, rate, 1000)
     IN latency_ts /= -1 /\ rtp_jitter_buffer_get_ts_diff(q) >= latency_ts

\* the test of chain that unschedules the pending clock wait
UnscheduleWaiting(cid, waiting, seqnum) == cid /= <<>> /\ waiting > seqnum

\* gst_rtp_jitter_buffer_chain up to JBUF_LOCK: validation of the buffer and
\* the clock-rate lookup through request-pt-map, whose answer r is a caps
\* structure (the caps without clock-rate stand for "no caps" as well)
ChainStart(s, valid, r) ==
  /\ Active /\ chain_pc = "idle" /\ steps < MaxEnv
  /\ steps' = steps + 1
  /\ UNCHANGED unscheduled_by_chain
  /\ IF ~valid
     THEN /\ chain_ret' = "ERROR"
          /\ chain_pc' = "return"
          /\ UNCHANGED <<chain_buf, clock_rate, clock_base, next_seqnum>>
     ELSE /\ IF clock_rate = -1
             THEN ParseCaps(r)
             ELSE UNCHANGED <<clock_rate, clock_base, next_seqnum>>
          /\ IF clock_rate' = -1
             THEN /\ chain_ret' = "NOT_NEGOTIATED"
                  /\ chain_pc' = "return"
                  /\ UNCHANGED chain_buf
             ELSE /\ chain_ret' = "NONE"
                  /\ chain_pc' = "lock"
                  /\ chain_buf' = <<Packet(s)>>
  /\ UNCHANGED <<jbuf, latency_ms, drop_on_latency, ts_offset, prev_ts_offset,
       last_popped_seqnum, eos, exttimestamp, srcresult, blocked, segment,
       clock_id, waiting_seqnum, peer_latency, num_late, num_duplicates>>
  /\ UNCHANGED <<taskvars, envvars, released>>
  /\ UNCHANGED obsvars

\* gst_rtp_jitter_buffer_chain from JBUF_LOCK_CHECK to JBUF_UNLOCK
ChainLocked ==
  /\ chain_pc = "lock" /\ jbuf_lock = "free"
  /\ chain_pc' = "return"
  /\ UNCHANGED chain_buf
  /\ LET p == chain_buf[1]
         q1 == IF QueueFull(latency_ms, drop_on_latency, clock_rate, jbuf)
               THEN rtp_jitter_buffer_pop(jbuf) ELSE jbuf
     IN IF srcresult /= "OK"
        THEN /\ chain_ret' = srcresult
             /\ UNCHANGED <<jbuf, num_late, num_duplicates, pc, clock_id,
                  unscheduled_by_chain>>
        ELSE IF eos
        THEN /\ chain_ret' = "UNEXPECTED"
             /\ UNCHANGED <<jbuf, num_late, num_duplicates, pc, clock_id,
                  unscheduled_by_chain>>
        ELSE IF TooLate(last_popped_seqnum, p.seq)
        THEN /\ chain_ret' = "OK"
             /\ num_late' = num_late + 1
             /\ UNCHANGED <<jbuf, num_duplicates, pc, clock_id,
                  unscheduled_by_chain>>
        ELSE IF ~rtp_jitter_buffer_insert_ok(q1, p)
        THEN /\ chain_ret' = "OK"
             /\ jbuf' = q1
             /\ num_duplicates' = num_duplicates + 1
             /\ UNCHANGED <<num_late, pc, clock_id, unscheduled_by_chain>>
        ELSE /\ chain_ret' = "OK"
             /\ jbuf' = rtp_jitter_buffer_insert(q1, p)
             /\ pc' = Signalled(pc)
             /\ IF UnscheduleWaiting(clock_id, waiting_seqnum, p.seq)
                THEN /\ clock_id' = Unscheduled(clock_id)
                     /\ unscheduled_by_chain' = TRUE
                ELSE UNCHANGED <<clock_id, unscheduled_by_chain>>
             /\ UNCHANGED <<num_late, num_duplicates>>
  /\ UNCHANGED <<latency_ms, drop_on_latency, ts_offset, prev_ts_offset,
       last_popped_seqnum, next_seqnum, eos, clock_rate, clock_base,
       exttimestamp, srcresult, blocked, segment, waiting_seqnum,
       peer_latency>>
  /\ UNCHANGED <<jbuf_lock, task, outbuf, ret, result>>
  /\ UNCHANGED <<envvars, bookvars>>
  /\ UNCHANGED obsvars

\* gst_rtp_jitter_buffer_chain returns chain_ret to the upstream peer
ChainReturn ==
  /\ chain_pc = "return"
  /\ chain_pc' = "idle"
  /\ chain_buf' = <<>>
  /\ chain_ret' = "NONE"
  /\ unscheduled_by_chain' = FALSE
  /\ UNCHANGED <<privvars, taskvars, envvars, bookvars>>
  /\ UNCHANGED obsvars

(* --------------------------- the egress task -------------------------- *)
\* gst_rtp_buffer_ext_timestamp: the 64-bit extension of a 32-bit timestamp;
\* the wrap counter of every timestamp of the model is 0
gst_rtp_buffer_ext_timestamp(prev, ts) == ts

\* gst_segment_to_running_time on a TIME segment of rate 1.0 starting at seg
gst_segment_to_running_time(seg, position) ==
  IF position = -1 \/ position < seg THEN -1 ELSE position - seg

\* a loop that waits on the clock for every packet (the variant the
\* synchronisation property of C21 is checked against)
NeedSyncAlways(next, seqnum) == TRUE

\* the test of the loop that decides to wait on the clock for a packet
NeedSync(next, seqnum) == next = -1 \/ next /= seqnum

\* the running time of a popped packet
RunningTime(ext, base, rate, seg) ==
  gst_segment_to_running_time(seg,
    gst_util_uint64_scale_int(ext - base, GST_SECOND, rate))

\* the clock time the loop waits for
SyncTime(running_time, lat, peer, base) ==
  running_time + (lat * GST_MSECOND) + peer + base

\* gst_clock_new_single_shot_id: no entry for GST_CLOCK_TIME_NONE
gst_clock_new_single_shot_id(t) ==
  IF t = -1 THEN <<>> ELSE <<[time |-> t, status |-> "BUSY"]>>

\* a loop that takes every return of the clock wait for an expired deadline
\* (the variant the deadline property of C7 is checked against)
GotUnscheduledNever(r) == FALSE

\* a loop that re-queues the popped packet only after a failed wait (the
\* variant the re-queueing property of C20 is checked against)
GotUnscheduledOnError(r) == r = "ERROR"

\* the test of the loop that re-queues the popped packet after the wait
GotUnscheduled(r) == r = "UNSCHEDULED"

\* the test of the loop that marks a gap before pushing
IsGap(next, seqnum) == next /= -1 /\ next /= seqnum

\* the number of missing packets added to num_late
Dropped(next, seqnum) == priv_compare_rtp_seq_lt(U16(next), seqnum)

\* the increment without the 16-bit mask (the variant the wrap property of C5
\* is checked against)
NextSeqnumUnmasked(seqnum) == seqnum + 1

\* the expected seqnum after pushing seqnum
NextSeqnum(seqnum) == (seqnum + 1) % SEQ_MOD

\* the timestamp offset in RTP ticks
TsOffsetRtp(off, rate) ==
  IF off > 0 THEN gst_util_uint64_scale_int(off, rate, GST_SECOND)
  ELSE IF off < 0 THEN 0 - gst_util_uint64_scale_int(0 - off, rate, GST_SECOND)
  ELSE 0

\* the flushing exit of the loop: pause the task, drop the local buffer
LoopFlushing ==
  /\ task' = "PAUSED"
  /\ outbuf' = <<>>
  /\ jbuf_lock' = "free"
  /\ pc' = "idle"

\* the task function is called: JBUF_LOCK_CHECK
LoopEnter ==
  /\ pc = "idle" /\ task = "STARTED" /\ jbuf_lock = "free"
  /\ IF srcresult /= "OK"
     THEN LoopFlushing
     ELSE /\ pc' = "again"
          /\ jbuf_lock' = "loop"
          /\ outbuf' = <<>>
          /\ UNCHANGED task
  /\ UNCHANGED <<privvars, ret, result, chainvars, envvars, bookvars>>
  /\ UNCHANGED obsvars

\* JBUF_WAIT_CHECK returns: the mutex is taken again
LoopCondWoken ==
  /\ pc = "cond_woken" /\ jbuf_lock = "free"
  /\ IF srcresult /= "OK"
     THEN LoopFlushing
     ELSE /\ pc' = "again"
          /\ jbuf_lock' = "loop"
          /\ UNCHANGED <<task, outbuf>>
  /\ UNCHANGED <<privvars, ret, result, chainvars, envvars, bookvars>>
  /\ UNCHANGED obsvars

\* a wait loop that never finds a packet in the store (the variant the EOS
\* property of C22 is checked against)
HavePacketNever(b, q) == FALSE

\* the test of the wait loop that leaves it to pop a packet
HavePacket(b, q) == ~b /\ rtp_jitter_buffer_num_packets(q) > 0

\* a wait loop that goes to do_eos although the element is blocked (the
\* variant the blocking property of C23 is checked against)
DoEosBlocked(b, e) == e

\* the test of the wait loop that leaves it for do_eos, made when the store
\* holds no packet
DoEos(b, e) == ~b /\ e

\* from label again to the clock wait, to push_buffer, to do_eos or to the
\* wait on the condition
LoopAgain ==
  /\ pc = "again" /\ jbuf_lock = "loop"
  /\ IF HavePacket(blocked, jbuf)
     THEN LET p == Head(jbuf)
              ext == gst_rtp_buffer_ext_timestamp(exttimestamp, p.ts)
              base == IF clock_base = -1 THEN ext ELSE clock_base
              t == SyncTime(RunningTime(ext, base, clock_rate, segment),
                            latency_ms, peer_latency, base_time)
          IN /\ jbuf' = rtp_jitter_buffer_pop(jbuf)
             /\ exttimestamp' = ext
             /\ IF NeedSync(next_seqnum, p.seq)
                THEN /\ clock_base' = base
                     /\ IF have_clock
                        THEN /\ clock_id' = gst_clock_new_single_shot_id(t)
                             /\ waiting_seqnum' = p.seq
                             /\ outbuf' = <<[p EXCEPT !.due = t]>>
                             /\ jbuf_lock' = "free"
                             /\ pc' = "clock_wait"
                        ELSE /\ outbuf' = <<p>>
                             /\ pc' = "push_buffer"
                             /\ UNCHANGED <<clock_id, waiting_seqnum,
                                  jbuf_lock>>
                ELSE /\ outbuf' = <<p>>
                     /\ pc' = "push_buffer"
                     /\ UNCHANGED <<clock_base, clock_id, waiting_seqnum,
                          jbuf_lock>>
             /\ UNCHANGED <<srcresult, task>>
     ELSE IF DoEos(blocked, eos)
     THEN /\ srcresult' = "UNEXPECTED"
          /\ task' = "PAUSED"
          /\ jbuf_lock' = "free"
          /\ pc' = "idle"
          /\ outbuf' = <<>>
          /\ UNCHANGED <<jbuf, exttimestamp, clock_base, clock_id,
               waiting_seqnum>>
     ELSE /\ jbuf_lock' = "free"
          /\ pc' = "cond_wait"
          /\ UNCHANGED <<jbuf, exttimestamp, clock_base, clock_id,
               waiting_seqnum, srcresult, task, outbuf>>
  /\ UNCHANGED <<latency_ms, drop_on_latency, ts_offset, prev_ts_offset,
       last_popped_seqnum, next_seqnum, eos, clock_rate, blocked, segment,
       peer_latency, num_late, num_duplicates>>
  /\ UNCHANGED <<ret, result, chainvars, envvars, bookvars>>
  /\ eos_events' = (IF pc' = "idle" THEN eos_events + 1 ELSE eos_events)
  /\ UNCHANGED <<query, flushed_slot, released_ts_offset, flush_pending,
       push_flushed>>

\* gst_clock_id_wait returns: unscheduled, or the time of the entry is reached
\* (GST_CLOCK_OK and GST_CLOCK_EARLY are both "OK"), or there is no entry
ClockWaitReturn ==
  /\ pc = "clock_wait"
  /\ \/ clock_id = <<>> /\ ret' = "ERROR"
     \/ clock_id /= <<>> /\ clock_id[1].status = "UNSCHEDULED"
          /\ ret' = "UNSCHEDULED"
     \/ clock_id /= <<>> /\ clock_id[1].status = "BUSY"
          /\ now >= clock_id[1].time /\ ret' = "OK"
  /\ pc' = "clock_woken"
  /\ UNCHANGED <<privvars, jbuf_lock, task, outbuf, result, chainvars,
       envvars, bookvars>>
  /\ UNCHANGED obsvars

\* after the clock wait: JBUF_LOCK, release of the entry, and the branch to
\* flushing, back to again (re-queueing the packet) or on to push_buffer
LoopAfterWait ==
  /\ pc = "clock_woken" /\ jbuf_lock = "free"
  /\ clock_id' = <<>>
  /\ waiting_seqnum' = -1
  /\ IF srcresult /= "OK"
     THEN LoopFlushing /\ UNCHANGED <<jbuf, num_duplicates>>
     ELSE IF GotUnscheduled(ret)
     THEN /\ IF rtp_jitter_buffer_insert_ok(jbuf, outbuf[1])
             THEN /\ jbuf' = rtp_jitter_buffer_insert(jbuf,
                                [outbuf[1] EXCEPT !.due = Absent])
                  /\ UNCHANGED num_duplicates
             ELSE /\ num_duplicates' = num_duplicates + 1
                  /\ UNCHANGED jbuf
          /\ pc' = "again"
          /\ jbuf_lock' = "loop"
          /\ UNCHANGED <<task, outbuf>>
     ELSE /\ pc' = "push_buffer"
          /\ jbuf_lock' = "loop"
          /\ UNCHANGED <<jbuf, num_duplicates, task, outbuf>>
  /\ UNCHANGED <<latency_ms, drop_on_latency, ts_offset, prev_ts_offset,
       last_popped_seqnum, next_seqnum, eos, clock_rate, clock_base,
       exttimestamp, srcresult, blocked, segment, peer_latency, num_late>>
  /\ UNCHANGED <<ret, result, chainvars, envvars, bookvars>>
  /\ flushed_slot' = FALSE
  /\ UNCHANGED <<query, released_ts_offset, eos_events, flush_pending,
       push_flushed>>

\* from label push_buffer to JBUF_UNLOCK and the call of gst_pad_push
LoopPushBuffer ==
  /\ pc = "push_buffer" /\ jbuf_lock = "loop"
  /\ LET p == outbuf[1]
         gap == IsGap(next_seqnum, p.seq)
         off == TsOffsetRtp(ts_offset, clock_rate)
         changed == off /= 0 /\ ts_offset /= prev_ts_offset
     IN /\ num_late' = IF gap THEN num_late + Dropped(next_seqnum, p.seq)
                       ELSE num_late
        /\ prev_ts_offset' = IF changed THEN ts_offset ELSE prev_ts_offset
        /\ outbuf' = <<[p EXCEPT !.discont = gap \/ changed,
                                 !.ts = p.ts + off]>>
        /\ last_popped_seqnum' = p.seq
        /\ next_seqnum' = NextSeqnum(p.seq)
        /\ released' = released \cup {p.seq}
  /\ jbuf_lock' = "free"
  /\ pc' = "pushing"
  /\ UNCHANGED <<jbuf, latency_ms, drop_on_latency, ts_offset, eos,
       clock_rate, clock_base, exttimestamp, srcresult, blocked, segment,
       clock_id, waiting_seqnum, peer_latency, num_duplicates>>
  /\ UNCHANGED <<task, ret, result, chainvars, envvars, steps>>
  /\ released_ts_offset' = ts_offset
  /\ push_flushed' = FALSE
  /\ UNCHANGED <<query, flushed_slot, eos_events, flush_pending>>

\* gst_pad_push returns r
LoopPushReturn(r) ==
  /\ pc = "pushing"
  /\ outbuf' = <<>>
  /\ IF r = "OK"
     THEN pc' = "idle" /\ UNCHANGED result
     ELSE pc' = "pause" /\ result' = r
  /\ UNCHANGED <<privvars, jbuf_lock, task, ret, chainvars, envvars,
       bookvars>>
  /\ push_flushed' = (r /= "OK" /\ push_flushed)
  /\ UNCHANGED <<query, flushed_slot, released_ts_offset, eos_events,
       flush_pending>>

\* a pause label that pauses the task without storing the result (the variant
\* the error property of C13 is checked against)
LoopPauseResultLost ==
  /\ pc = "pause" /\ jbuf_lock = "free"
  /\ task' = "PAUSED"
  /\ pc' = "idle"
  /\ UNCHANGED <<privvars, jbuf_lock, outbuf, ret, result, chainvars, envvars,
       bookvars>>
  /\ push_flushed' = FALSE
  /\ UNCHANGED <<query, flushed_slot, released_ts_offset, eos_events,
       flush_pending>>

\* label pause: the result is stored and the task paused
LoopPause ==
  /\ pc = "pause" /\ jbuf_lock = "free"
  /\ srcresult' = result
  /\ task' = "PAUSED"
  /\ pc' = "idle"
  /\ UNCHANGED <<jbuf, latency_ms, drop_on_latency, ts_offset, prev_ts_offset,
       last_popped_seqnum, next_seqnum, eos, clock_rate, clock_base,
       exttimestamp, blocked, segment, clock_id, waiting_seqnum,
       peer_latency, num_late, num_duplicates>>
  /\ UNCHANGED <<jbuf_lock, outbuf, ret, result, chainvars, envvars,
       bookvars>>
  /\ push_flushed' = FALSE
  /\ UNCHANGED <<query, flushed_slot, released_ts_offset, eos_events,
       flush_pending>>

(* ------------------------------ the clock ----------------------------- *)
Tick ==
  /\ steps < MaxEnv /\ jbuf_lock = "free"
  /\ now' = now + TickNs
  /\ steps' = steps + 1
  /\ UNCHANGED <<privvars, taskvars, chainvars, state, base_time, have_clock,
       released>>
  /\ UNCHANGED obsvars

\* the clock advances to the time of the entry the task waits on
ClockAdvance ==
  /\ pc = "clock_wait" /\ clock_id /= <<>> /\ clock_id[1].status = "BUSY"
  /\ now < clock_id[1].time
  /\ now' = clock_id[1].time
  /\ UNCHANGED <<privvars, taskvars, chainvars, state, base_time, have_clock,
       bookvars>>
  /\ UNCHANGED obsvars

(* --------------------------- specification ---------------------------- *)
Next ==
  \/ ReadyToPaused
  \/ \E c \in BOOLEAN : PausedToPlaying(c)
  \/ PlayingToPaused
  \/ \E c \in PadCaps : SetCaps(c)
  \/ ClearPtMap
  \/ FlushStart
  \/ FlushStop
  \/ SinkEos
  \/ \E st \in SegmentStarts : NewSegment(st)
  \/ \E v \in Latencies : SetLatency(v)
  \/ \E v \in BOOLEAN : SetDropOnLatency(v)
  \/ \E v \in TsOffsets : SetTsOffset(v)
  \/ \E m \in PeerLatencies, mx \in PeerMaxLatencies : QueryLatency(m, mx)
  \/ \E s \in Seqs, valid \in BOOLEAN, r \in CapsSet : ChainStart(s, valid, r)
  \/ ChainLocked
  \/ ChainReturn
  \/ LoopEnter
  \/ LoopCondWoken
  \/ LoopAgain
  \/ ClockWaitReturn
  \/ LoopAfterWait
  \/ LoopPushBuffer
  \/ \E r \in PushResults : LoopPushReturn(r)
  \/ LoopPause
  \/ Tick

Spec == Init /\ [][Next]_vars

\* the element fed by a request-pt-map handler that may answer any caps, with
\* a slow payload clock and a short latency
NextCaps ==
  \/ ReadyToPaused
  \/ \E c \in BOOLEAN : PausedToPlaying(c)
  \/ \E c \in SlowCaps : SetCaps(c)
  \/ ClearPtMap
  \/ \E v \in ShortLatencies : SetLatency(v)
  \/ \E v \in BOOLEAN : SetDropOnLatency(v)
  \/ \E s \in Seqs, valid \in BOOLEAN, r \in ResolverCaps :
       ChainStart(s, valid, r)
  \/ ChainLocked
  \/ ChainReturn
  \/ LoopEnter
  \/ LoopCondWoken
  \/ LoopAgain
  \/ ClockWaitReturn
  \/ LoopAfterWait
  \/ LoopPushBuffer
  \/ \E r \in PushResults : LoopPushReturn(r)
  \/ LoopPause
  \/ Tick

SpecCaps == Init /\ [][NextCaps]_vars

\* the element under fair scheduling: the streaming thread, the egress task
\* and downstream keep running, and the clock reaches every time waited for
LiveSeqs == {0, 1}
LiveCaps == {c \in PadCaps : c.clock_base = Absent}

TaskStep ==
  \/ LoopEnter
  \/ LoopCondWoken
  \/ LoopAgain
  \/ ClockWaitReturn
  \/ LoopAfterWait
  \/ LoopPushBuffer
  \/ \E r \in PushResults : LoopPushReturn(r)
  \/ LoopPause

NextLive ==
  \/ ReadyToPaused
  \/ \E c \in BOOLEAN : PausedToPlaying(c)
  \/ PlayingToPaused
  \/ FlushStart
  \/ FlushStop
  \/ SinkEos
  \/ \E s \in LiveSeqs, r \in LiveCaps : ChainStart(s, TRUE, r)
  \/ ChainLocked
  \/ ChainReturn
  \/ TaskStep
  \/ ClockAdvance

SpecLive ==
  /\ Init /\ [][NextLive]_vars
  /\ WF_vars(TaskStep)
  /\ WF_vars(ChainLocked)
  /\ WF_vars(ChainReturn)
  /\ WF_vars(ClockAdvance)

(* ------------------------------ properties ---------------------------- *)
\* the step of the egress task that releases outbuf downstream
Release == pc = "push_buffer" /\ pc' = "pushing"

\* the step of chain under the mutex for a buffer that is neither refused for
\* flushing nor for end-of-stream
Push == chain_pc = "lock" /\ chain_pc' = "return" /\ srcresult = "OK" /\ ~eos

\* C1: between two flush-stops every packet released downstream has a seqnum
\* strictly after (wrap-aware) every seqnum released before it.
C1_MonotoneRelease ==
  [][Release => \A r \in released : SeqDiff(r, outbuf[1].seq) > 0]_vars

\* C2: between two flush-stops no seqnum is released downstream twice.
C2_NoSecondRelease ==
  [][Release => outbuf[1].seq \notin released]_vars

\* C3: once a packet s was released, a push of x with seq_diff(s, x) <= 0
\* adds one to num_late, leaves the store alone and returns OK.
C3_LatePushCounted ==
  [][(Push /\ last_popped_seqnum /= -1
        /\ SeqDiff(last_popped_seqnum, chain_buf[1].seq) <= 0)
      => (num_late' = num_late + 1 /\ jbuf' = jbuf /\ chain_ret' = "OK")]_vars

\* C4: a push of a seqnum that is not too late and whose first copy is still
\* in the store, or held by the task during its clock wait, adds one to
\* num_duplicates, returns OK and adds no packet to the store.
C4_DuplicateCounted ==
  [][(Push /\ ~(last_popped_seqnum /= -1
                 /\ SeqDiff(last_popped_seqnum, chain_buf[1].seq) <= 0)
        /\ (chain_buf[1].seq \in SeqsIn(jbuf)
            \/ (pc = "clock_wait" /\ outbuf[1].seq = chain_buf[1].seq)))
      => (num_duplicates' = num_duplicates + 1 /\ chain_ret' = "OK"
          /\ Len(jbuf') <= Len(jbuf) /\ SeqsIn(jbuf') \subseteq SeqsIn(jbuf))]_vars

\* C5 as the specification states it: whenever the mutex is free, the element
\* is active and a packet was released since the last flush-stop, next_seqnum
\* is -1 or (last_popped_seqnum + 1) mod 2^16.
C5_NextFollowsLast ==
  (Active /\ jbuf_lock = "free" /\ last_popped_seqnum /= -1)
    => (next_seqnum = -1
        \/ next_seqnum = (last_popped_seqnum + 1) % SEQ_MOD)

\* C5, amended: every release leaves next_seqnum = (last_popped_seqnum + 1)
\* mod 2^16, flush-stop leaves both at -1, and the only other writer is the
\* caps parser, which stores the seqnum-base of the caps (or -1) whatever
\* last_popped_seqnum is.
C5_NextSeqnumWriters ==
  [][(next_seqnum' /= next_seqnum \/ last_popped_seqnum' /= last_popped_seqnum
        \/ Release)
      => \/ Release /\ last_popped_seqnum' = outbuf[1].seq
              /\ next_seqnum' = (last_popped_seqnum' + 1) % SEQ_MOD
         \/ last_popped_seqnum' = -1 /\ next_seqnum' = -1
         \/ last_popped_seqnum' = last_popped_seqnum
              /\ next_seqnum' \in {-1} \cup {c.seqnum_base : c \in CapsSet}]_vars

\* a release across the wrap: 65535 was pushed and 0 is expected
C5_Witness ==
  pc = "pushing" /\ last_popped_seqnum = SEQ_MOD - 1 /\ next_seqnum = 0

\* C6: with drop_on_latency set and a latency above 0, the store spans less
\* than latency_ms * clock_rate / 1000 RTP ticks after every push that
\* inserted its packet.
C6_SpanBelowLatency ==
  [][(Push /\ drop_on_latency /\ latency_ms > 0 /\ clock_rate > 0
        /\ chain_ret' = "OK" /\ jbuf' /= jbuf
        /\ num_duplicates' = num_duplicates)
      => rtp_jitter_buffer_get_ts_diff(jbuf')
           < gst_util_uint64_scale_int(latency_ms, clock_rate, 1000)]_vars

\* the deadline of packet p: the running time of its RTP timestamp plus the
\* configured latency, the peer latency and the base time
Deadline(p) ==
  SyncTime(RunningTime(p.ts, clock_base, clock_rate, segment),
           latency_ms, peer_latency, base_time)

\* C7 as the specification states it: with an element clock and a known
\* clock-base, no packet is released before its own deadline.
C7_ReleasedAtDeadline ==
  [][(Release /\ have_clock /\ clock_base /= -1 /\ clock_rate > 0)
      => now >= Deadline(outbuf[1])]_vars

\* C7, amended: a packet the task synchronised on the clock (next_seqnum was
\* unknown or different from its seqnum when it was popped, and the element
\* has a clock) is released no sooner than the deadline computed for it at
\* the pop; a packet whose seqnum equals next_seqnum is released as soon as
\* it is popped.
C7_SyncedNotEarly ==
  (pc \in {"push_buffer", "pushing"} /\ outbuf /= <<>>
     /\ outbuf[1].due /= Absent)
    => now >= outbuf[1].due

\* a synchronised packet is being pushed at a deadline the clock had to reach
C7_Witness ==
  /\ pc = "pushing" /\ outbuf /= <<>>
  /\ outbuf[1].due /= Absent /\ outbuf[1].due > outbuf[1].arr
  /\ now >= outbuf[1].due

\* C8: while the element plays and does not flush, the task never sleeps for
\* a packet beyond the packet's arrival time plus the configured latency and
\* the peer latency.
C8_ResidenceBounded ==
  (state = "PLAYING" /\ srcresult = "OK" /\ pc = "clock_wait"
     /\ clock_id /= <<>> /\ clock_id[1].status = "BUSY"
     /\ now < clock_id[1].time /\ outbuf[1].arr >= base_time)
    => now <= outbuf[1].arr + latency_ms * GST_MSECOND + peer_latency

\* C9: a packet released while next_seqnum is known and different from its
\* seqnum is flagged discont and adds seq_diff(next_seqnum, seqnum) to
\* num_late; a packet whose seqnum is next_seqnum adds nothing and is not
\* flagged for a gap.
C9_GapAccounting ==
  [][Release =>
       IF next_seqnum /= -1 /\ next_seqnum /= outbuf[1].seq
       THEN /\ outbuf'[1].discont
            /\ num_late' = num_late + SeqDiff(next_seqnum, outbuf[1].seq)
       ELSE /\ num_late' = num_late
            /\ outbuf'[1].discont => ts_offset /= prev_ts_offset]_vars

\* C10: a push that inserts its packet while the task waits on the clock
\* unschedules the wait exactly when the inserted seqnum is before (wrap-aware)
\* the seqnum the task waits for.
C10_CancelIffEarlier ==
  [][(Push /\ clock_id /= <<>> /\ chain_ret' = "OK"
        /\ num_late' = num_late /\ num_duplicates' = num_duplicates)
      => (unscheduled_by_chain'
            <=> SeqDiff(chain_buf[1].seq, waiting_seqnum) > 0)]_vars

\* C11: when flush_start finds the task in its clock wait holding a popped
\* packet, the task leaves through the flushing exit: it pushes nothing, puts
\* nothing back into the store and drops the packet once.
C11_FlushDiscardsHeld ==
  [][(pc = "clock_woken" /\ pc' /= "clock_woken" /\ flushed_slot)
      => (pc' = "idle" /\ task' = "PAUSED" /\ outbuf' = <<>>
          /\ jbuf' = jbuf /\ released' = released)]_vars

\* C12: while srcresult is not OK a call of chain changes neither the store
\* nor num_late, num_duplicates, last_popped_seqnum, next_seqnum, clock_rate
\* and clock_base, and the call that reaches the mutex returns srcresult.
C12_FlushingPushNoWork ==
  [][(srcresult /= "OK" /\ chain_pc \in {"idle", "lock"}
        /\ chain_pc' /= chain_pc)
      => (/\ UNCHANGED <<jbuf, num_late, num_duplicates, last_popped_seqnum,
                         next_seqnum, clock_rate, clock_base>>
          /\ chain_pc = "lock" => chain_ret' = srcresult)]_vars

\* C13 as the specification states it: the pause label stores the result r
\* of the failed push in srcresult and pauses the task; from then on every
\* call of chain returns r and leaves the store alone, and srcresult stays r
\* until flush_stop makes it OK.
C13_ErrorSticks ==
  [][/\ (pc = "pause" /\ pc' = "idle")
          => (srcresult' = result /\ task' = "PAUSED")
     /\ (srcresult = "ERROR" /\ chain_pc \in {"idle", "lock"}
           /\ chain_pc' = "return")
          => (chain_ret' = "ERROR" /\ jbuf' = jbuf)
     /\ (srcresult = "ERROR" /\ srcresult' /= "ERROR")
          => (srcresult' = "OK" /\ last_popped_seqnum' = -1)]_vars

\* C13, amended: the pause label stores r in srcresult and pauses the task;
\* while srcresult is not OK a call of chain that reaches the mutex returns
\* the stored srcresult (r, or the flushing result once flush_start has
\* replaced it), a call refused before the mutex returns its own error, no
\* call changes the store, and only flush_stop makes srcresult OK again.
C13_StoredResultReturned ==
  [][/\ (pc = "pause" /\ pc' = "idle")
          => (srcresult' = result /\ result /= "OK" /\ task' = "PAUSED")
     /\ (srcresult /= "OK" /\ chain_pc = "lock" /\ chain_pc' = "return")
          => (chain_ret' = srcresult /\ jbuf' = jbuf)
     /\ (srcresult /= "OK" /\ chain_pc = "idle" /\ chain_pc' = "return")
          => (chain_ret' \in {"ERROR", "NOT_NEGOTIATED"} /\ jbuf' = jbuf)
     /\ (srcresult /= "OK" /\ srcresult' = "OK")
          => (last_popped_seqnum' = -1 /\ next_seqnum' = -1
              /\ clock_rate' = -1 /\ ~eos')]_vars

\* a packet pushed after a failed downstream push was refused with the error
C13_Witness ==
  /\ srcresult = "ERROR" /\ result = "ERROR" /\ task = "PAUSED"
  /\ chain_pc = "return" /\ chain_buf /= <<>> /\ chain_ret = "ERROR"

\* C14 as the specification states it: once EOS is queued every call of chain
\* that reaches the mutex returns UNEXPECTED (EOS) and changes neither the
\* store nor the counters, and only flush_stop clears the EOS flag.
C14_EosRefusesPush ==
  [][/\ (eos /\ chain_pc = "lock" /\ chain_pc' = "return")
          => (chain_ret' = "UNEXPECTED"
              /\ UNCHANGED <<jbuf, num_late, num_duplicates>>)
     /\ (eos /\ ~eos') => (srcresult' = "OK" /\ last_popped_seqnum' = -1)]_vars

\* C14, amended: once EOS is queued a call of chain changes neither the store
\* nor the counters; the call that reaches the mutex returns UNEXPECTED (EOS)
\* unless srcresult holds another result that is not OK (flushing, a
\* downstream error), which it returns instead; a call refused before the
\* mutex returns its own error; flush_stop, which makes srcresult OK, clears
\* the EOS flag and nothing else does.
C14_EosOrStoredResult ==
  [][/\ (eos /\ chain_pc = "lock" /\ chain_pc' = "return")
          => (chain_ret' = (IF srcresult \in {"OK", "UNEXPECTED"}
                            THEN "UNEXPECTED" ELSE srcresult)
              /\ UNCHANGED <<jbuf, num_late, num_duplicates>>)
     /\ (eos /\ chain_pc = "idle" /\ chain_pc' = "return")
          => (chain_ret' \in {"ERROR", "NOT_NEGOTIATED"}
              /\ UNCHANGED <<jbuf, num_late, num_duplicates>>)
     /\ (eos /\ ~eos') => (srcresult' = "OK" /\ last_popped_seqnum' = -1)
     /\ (srcresult /= "OK" /\ srcresult' = "OK") => ~eos']_vars

\* a packet pushed after the task has sent EOS downstream was refused with EOS
C14_Witness ==
  /\ eos /\ srcresult = "UNEXPECTED" /\ task = "PAUSED"
  /\ chain_pc = "return" /\ chain_buf /= <<>> /\ chain_ret = "UNEXPECTED"

\* C15: the latency query answers min = peer min + latency_ms * 10^6 ns and,
\* for a bounded peer maximum, max = peer max + latency_ms * 10^6 ns; an
\* unbounded peer maximum stays unbounded; the peer minimum is stored in
\* peer_latency.
C15_QueryLatencyOnce ==
  [][(query' /= query)
      => LET q == query'[1]
             our_latency == latency_ms * GST_MSECOND
         IN /\ q.min = q.peer_min + our_latency
            /\ q.max = (IF q.peer_max = -1 THEN Wide(-1)
                        ELSE Wide(q.peer_max + our_latency))
            /\ peer_latency' = q.peer_min]_vars

\* C16: the fields of the private structure are written only under the JBUF
\* mutex: while the egress task holds the mutex, a step of another thread
\* writes none of latency_ms, drop_on_latency, ts_offset, clock_rate,
\* clock_base, next_seqnum, last_popped_seqnum, srcresult, eos, blocked,
\* clock_id and waiting_seqnum.
C16_WritesUnderMutex ==
  [][(jbuf_lock = "loop" /\ pc' = pc)
      => UNCHANGED <<latency_ms, drop_on_latency, ts_offset, clock_rate,
                     clock_base, next_seqnum, last_popped_seqnum, srcresult,
                     eos, blocked, clock_id, waiting_seqnum>>]_vars

\* C17: a packet released while ts_offset differs from the ts_offset in force
\* at the previous release is flagged discont.
C17_OffsetChangeDiscont ==
  [][(Release /\ released_ts_offset /= Absent
        /\ ts_offset /= released_ts_offset)
      => outbuf'[1].discont]_vars

\* C18: whenever the mutex is free, the clock entry (clock_id with
\* waiting_seqnum) is present only while the task is inside the clock wait,
\* and the task inside the clock wait on an entry has it present.
C18_DeadlineIffWaiting ==
  jbuf_lock = "free"
    => /\ clock_id /= <<>> => (pc = "clock_wait" /\ waiting_seqnum /= -1)
       /\ (pc = "clock_wait" /\ outbuf[1].due /= -1) => clock_id /= <<>>

\* C19: the task drops the packet in its local slot only when it owns it,
\* that is on the flushing exit taken right after the clock wait; after the
\* packet was put back into the store the slot is empty, so no other exit
\* drops a packet.
C19_SlotDroppedOnce ==
  [][(outbuf /= <<>> /\ outbuf' = <<>> /\ pc /= "pushing")
      => pc = "clock_woken"]_vars

\* C20: when the clock wait returned UNSCHEDULED and srcresult is OK, the task
\* releases nothing: it puts the popped packet back into the store (or, when
\* its seqnum is already resident, leaves the store alone and counts a
\* duplicate) and goes back to label again with the packet's seqnum resident;
\* and every pop takes the smallest seqnum (wrap-aware) of the store.
C20_UnscheduledRequeues ==
  [][/\ (pc = "clock_woken" /\ pc' /= pc /\ ret = "UNSCHEDULED"
           /\ srcresult = "OK")
        => /\ pc' = "again"
           /\ released' = released
           /\ outbuf[1].seq \in SeqsIn(jbuf')
           /\ IF outbuf[1].seq \in SeqsIn(jbuf)
              THEN jbuf' = jbuf /\ num_duplicates' = num_duplicates + 1
              ELSE /\ SeqsIn(jbuf') = SeqsIn(jbuf) \cup {outbuf[1].seq}
                   /\ Len(jbuf') = Len(jbuf) + 1
                   /\ num_duplicates' = num_duplicates
     /\ (pc = "again" /\ pc' \in {"clock_wait", "push_buffer"})
        => /\ outbuf'[1].seq \in SeqsIn(jbuf)
           /\ \A s \in SeqsIn(jbuf) : SeqDiff(outbuf'[1].seq, s) >= 0]_vars

\* the packet held during an unscheduled wait is back in the store, next to
\* the earlier packet that cancelled the wait, and the task is at label again
C20_Witness ==
  /\ pc = "again" /\ ret = "UNSCHEDULED" /\ srcresult = "OK"
  /\ outbuf /= <<>> /\ outbuf[1].seq \in SeqsIn(jbuf)
  /\ Len(jbuf) = 2 /\ jbuf[1].seq /= outbuf[1].seq

\* C21: the task takes a popped packet into the clock wait exactly when
\* next_seqnum is -1 or differs from the packet's seqnum and the element has a
\* clock: it then publishes the entry with waiting_seqnum and releases the
\* mutex; otherwise it goes on to push_buffer in the same critical section,
\* keeping the mutex and publishing no entry.
C21_SyncIffUnexpected ==
  [][(pc = "again" /\ pc' \in {"clock_wait", "push_buffer"})
      => LET seqnum == Head(jbuf).seq
         IN IF (next_seqnum = -1 \/ next_seqnum /= seqnum) /\ have_clock
            THEN /\ pc' = "clock_wait"
                 /\ jbuf_lock' = "free"
                 /\ waiting_seqnum' = seqnum
                 /\ outbuf'[1].due /= -1
                      => clock_id' = <<[time |-> outbuf'[1].due,
                                        status |-> "BUSY"]>>
            ELSE /\ pc' = "push_buffer"
                 /\ jbuf_lock' = "loop"
                 /\ clock_id' = <<>>
                 /\ waiting_seqnum' = -1]_vars

\* with an element clock, the expected packet was popped and goes on to the
\* push without a clock wait
C21_Witness ==
  /\ pc = "push_buffer" /\ jbuf_lock = "loop" /\ have_clock
  /\ outbuf /= <<>> /\ outbuf[1].due = Absent
  /\ next_seqnum = outbuf[1].seq /\ clock_id = <<>>

\* C22: the task pushes the EOS event downstream only when EOS is queued, the
\* store is empty, the task is at the top of its cycle (no popped packet is
\* waiting to be pushed) and blocked is false; the step sets srcresult to
\* UNEXPECTED (EOS) and pauses the task, and at most one EOS event is pushed
\* between two activations of the source pad.
C22_EosAfterPackets ==
  [][(eos_events' /= eos_events /\ eos_events' /= 0)
      => /\ pc = "again" /\ eos /\ ~blocked
         /\ jbuf = <<>>
         /\ srcresult = "OK" /\ srcresult' = "UNEXPECTED"
         /\ task' = "PAUSED" /\ pc' = "idle"
         /\ eos_events = 0]_vars

\* the EOS event was pushed after a packet accepted before it was released
C22_Witness ==
  /\ eos_events = 1 /\ srcresult = "UNEXPECTED" /\ eos /\ task = "PAUSED"
  /\ released /= {} /\ jbuf = <<>> /\ pc = "idle"

\* C23: while blocked is set the task, at the top of its cycle, neither pops
\* a packet nor pushes EOS but waits on the condition, and a call of chain
\* with a fresh packet (not too late, seqnum not resident) still inserts it;
\* the change to PLAYING clears blocked and wakes a task waiting on the
\* condition, which then goes back to the top of its cycle and pops when the
\* store holds a packet.
C23_BlockedTaskWaits ==
  [][/\ (blocked /\ pc = "again" /\ pc' /= pc)
        => (pc' = "cond_wait" /\ jbuf_lock' = "free" /\ jbuf' = jbuf
            /\ eos_events' = eos_events /\ released' = released)
     /\ (blocked /\ Push /\ ~TooLate(last_popped_seqnum, chain_buf[1].seq)
           /\ chain_buf[1].seq \notin SeqsIn(jbuf))
        => (chain_ret' = "OK" /\ chain_buf[1].seq \in SeqsIn(jbuf'))
     /\ (state = "PAUSED" /\ state' = "PLAYING")
        => (~blocked' /\ (pc = "cond_wait" => pc' = "cond_woken"))
     /\ (pc = "cond_woken" /\ pc' /= pc /\ srcresult = "OK")
        => (pc' = "again" /\ jbuf_lock' = "loop" /\ jbuf' = jbuf)
     /\ (~blocked /\ pc = "again" /\ pc' /= pc /\ jbuf /= <<>>)
        => (pc' \in {"clock_wait", "push_buffer"}
            /\ jbuf' = Tail(jbuf) /\ outbuf'[1].seq = Head(jbuf).seq)]_vars

\* blocked, the task waits on the condition while the store holds a packet
\* that chain accepted
C23_Witness ==
  /\ blocked /\ pc = "cond_wait" /\ jbuf /= <<>> /\ srcresult = "OK"
  /\ chain_pc = "return" /\ chain_ret = "OK"

\* C24: from flush_start until the next flush_stop the store is empty and
\* srcresult is not OK, in every state.
C24_FlushedStoreEmpty ==
  flush_pending => (jbuf = <<>> /\ srcresult /= "OK")

\* between flush_start and flush_stop a call of chain was refused with the
\* flushing result and the task has left through the flushing exit
C24_Witness ==
  /\ flush_pending /\ chain_pc = "return" /\ chain_buf /= <<>>
  /\ chain_ret = "WRONG_STATE" /\ outbuf = <<>> /\ task = "PAUSED"

\* C25 as the specification states it: flush_stop sets srcresult to OK, the
\* segment to the default TIME segment, last_popped_seqnum, next_seqnum and
\* clock_rate to -1, eos to FALSE and exttimestamp to 0, and leaves the store,
\* latency_ms, drop_on_latency, ts_offset and the counters unchanged.
C25_FlushStopResets ==
  [][(steps' /= steps /\ FlushStop)
      => /\ srcresult' = "OK" /\ segment' = 0
         /\ last_popped_seqnum' = -1 /\ next_seqnum' = -1
         /\ clock_rate' = -1 /\ eos' = FALSE
         /\ exttimestamp' = 0
         /\ UNCHANGED <<jbuf, latency_ms, drop_on_latency, ts_offset,
                        num_late, num_duplicates>>]_vars

\* C25, amended: as above, but exttimestamp is set to -1, the value that makes
\* gst_rtp_buffer_ext_timestamp take the next RTP timestamp as it is.
C25_FlushStopResetsUnset ==
  [][(steps' /= steps /\ FlushStop)
      => /\ srcresult' = "OK" /\ segment' = 0
         /\ last_popped_seqnum' = -1 /\ next_seqnum' = -1
         /\ clock_rate' = -1 /\ eos' = FALSE
         /\ exttimestamp' = -1
         /\ UNCHANGED <<jbuf, latency_ms, drop_on_latency, ts_offset,
                        num_late, num_duplicates>>]_vars

\* flush_stop ran after a packet was released and a gap counted: the
\* counter is kept, the seqnums and the clock-rate are reset
C25_Witness ==
  /\ num_late > 0 /\ last_popped_seqnum = -1 /\ next_seqnum = -1
  /\ clock_rate = -1 /\ srcresult = "OK" /\ exttimestamp = -1 /\ ~eos

\* C28: no step decreases num_late or num_duplicates, read as the unsigned
\* 64-bit values the fields hold (a negative number of the model stands for
\* the wrapped value 2^64 minus its magnitude).
C28_CountersMonotone ==
  [][LET ULe(a, b) == IF (a < 0) = (b < 0) THEN a <= b ELSE b < 0
     IN /\ ULe(num_late, num_late')
        /\ ULe(num_duplicates, num_duplicates')]_vars

\* C29: while the element is active clock_rate is -1 or strictly positive,
\* and chain never reaches the mutex with a clock_rate that is not positive.
C29_ClockRatePositive ==
  Active => /\ clock_rate = -1 \/ clock_rate > 0
            /\ chain_pc = "lock" => clock_rate > 0

\* C30: rtp_jitter_buffer_pop is only called on a store that holds a packet:
\* by the task when it leaves its wait loop, and, with a positive clock-rate,
\* by chain when it evicts the oldest packet for drop-on-latency.
C30_PopOnNonEmpty ==
  [][/\ (pc = "again" /\ pc' \in {"clock_wait", "push_buffer"})
          => jbuf /= <<>>
     /\ (Push /\ clock_rate > 0
           /\ ~TooLate(last_popped_seqnum, chain_buf[1].seq)
           /\ QueueFull(latency_ms, drop_on_latency, clock_rate, jbuf))
          => jbuf /= <<>>]_vars

\* C26: after flush_start was called while the egress task was inside its
\* loop function, waiting on the condition or in the clock wait, the task
\* eventually leaves the function through the flushing exit, paused.
C26_FlushStartStopsTask ==
  (flush_pending /\ pc \in {"cond_woken", "clock_wait", "clock_woken"})
    ~> (task = "PAUSED" /\ pc = "idle")

\* C27: while the element is unblocked, not flushing and not in error, a
\* packet in the store does not stay there: the store is eventually drained
\* by the task, unless the element gets blocked or srcresult leaves OK; and
\* the task does not stay in its wait on the condition while the store holds
\* a packet.
C27_StoreDrained ==
  /\ (jbuf /= <<>>) ~> (jbuf = <<>> \/ blocked \/ srcresult /= "OK")
  /\ (pc = "cond_wait" /\ jbuf /= <<>>)
       ~> (pc /= "cond_wait" \/ blocked \/ srcresult /= "OK")

\* the task was woken from its wait on the condition by a packet put into
\* the store of the unblocked element
C27_Witness ==
  /\ pc = "cond_woken" /\ jbuf /= <<>> /\ ~blocked /\ srcresult = "OK"
  /\ chain_pc = "return" /\ chain_ret = "OK"

\* C31: srcresult, once OK, leaves OK only through flush_start, through the
\* emission of EOS by the task, or through the pause label after the failure
\* of a downstream push that was started after the last flush_stop; the
\* failure of a push that was already in flight, with the mutex released,
\* when flush_stop ran leaves srcresult OK.
C31_StaleFailureIgnored ==
  [][(srcresult = "OK" /\ srcresult' /= "OK")
       => \/ (flush_pending' /\ ~flush_pending
                /\ srcresult' = "WRONG_STATE")
          \/ (eos_events' = eos_events + 1 /\ srcresult' = "UNEXPECTED")
          \/ (pc = "pause" /\ pc' = "idle" /\ srcresult' = result
                /\ ~push_flushed)]_vars

=============================================================================
